---- MODULE Spec2Model ----
(***************************************************************************)
(* Event-networking recommendation and clustering core.                    *)
(*                                                                         *)
(* Similarity scores are Python floats in the source.  Here a score is an  *)
(* integer number of hundredths (Scale = 1.00), and a feature vector is    *)
(* held in units of 1/40, so that experience_years / 40 is the integer     *)
(* experience_years itself.  Cosine similarity does not depend on the      *)
(* unit of its arguments.                                                  *)
(***************************************************************************)
EXTENDS Integers, Sequences, FiniteSets, TLC

\* ------------------------------------------------------------------ bounds
NumUsers == 3
NumEvents == 1
MaxRecommendations == 2

Users == 1..NumUsers
Events == 1..NumEvents

\* ------------------------------------------------------- program constants
Scale == 10 * 10
Thousand == 10 * Scale
min_similarity_threshold == 10
similarity_threshold == 30
similarity_threshold_for_edges == 30
ExperienceCeiling == 40
MissingId == 9999

\* Optional[int]: None is the empty sequence, a value v is <<v>>.
None == <<>>
Some(v) == <<v>>

\* ------------------------------------------------------------ sequences
SeqSum(f, n) == LET RECURSIVE S(_)
                    S(k) == IF k = 0 THEN 0 ELSE f[k] + S(k - 1)
                IN S(n)

Take(s, n) == IF n >= Len(s) THEN s ELSE SubSeq(s, 1, n)

\* All orderings of a finite set, as sequences without repetition.
RECURSIVE Orderings(_)
Orderings(S) == IF S = {} THEN {<<>>}
                ELSE UNION {{<<x>> \o t : t \in Orderings(S \ {x})} : x \in S}

Range(s) == {s[k] : k \in 1..Len(s)}

\* The pairs i < j of range(n).
IndexPairs(n) == {p \in (1..n) \X (1..n) : p[1] < p[2]}

\* ------------------------------------------------------------ profiles
\* A user's profile, as far as the feature builder reads it.  text is the
\* row TfidfVectorizer yields for the user's combined text, over a
\* two-term vocabulary: an L2-normalised row of non-negative weights (norm
\* 40 in units of 1/40), or the zero row when the text holds no token.
TextRows == {<<0, 0>>, <<40, 0>>, <<0, 40>>, <<24, 32>>}
ExperienceValues == {None, Some(20), Some(30), Some(45), Some(0 - 20)}
Profiles == [text : TextRows, experience_years : ExperienceValues]

\* Python's "x or 0" on Optional[int].
OrZero(x) == IF x = None \/ x = Some(0) THEN 0 ELSE x[1]

\* One row of the attendee DataFrame.
AttendeeRow(user_id, profile) ==
    [user_id |-> user_id,
     text |-> profile.text,
     experience_years |-> OrZero(profile.experience_years)]

\* ------------------------------------------------------------- features
Min(a, b) == IF a <= b THEN a ELSE b

\* min(exp_years / 40.0, 1.0), in units of 1/40.
NormalizedExp(exp_years) == Min(exp_years, ExperienceCeiling)

\* fit_transform raises ValueError("empty vocabulary") when no document
\* of the batch holds a token.
EmptyVocabulary(df) == \A k \in 1..Len(df) : df[k].text = <<0, 0>>

\* np.hstack([text_dense, numerical_features]); the empty array (here the
\* empty sequence) for an empty frame and when the vectorizer raised.
CreateUserFeatures(df) ==
    IF df = <<>> \/ EmptyVocabulary(df) THEN <<>>
    ELSE [k \in 1..Len(df) |->
            Append(df[k].text, NormalizedExp(df[k].experience_years))]

\* ----------------------------------------------------------- similarity
Dot(a, b) == SeqSum([k \in 1..Len(a) |-> a[k] * b[k]], Len(a))

\* Floor of the square root, by bisection on lo <= sqrt(n) < hi.
RECURSIVE Bisect(_, _, _)
Bisect(n, lo, hi) ==
    IF hi - lo <= 1 THEN lo
    ELSE LET mid == (lo + hi) \div 2
         IN IF mid * mid <= n THEN Bisect(n, mid, hi) ELSE Bisect(n, lo, mid)

\* 46340 is the largest integer whose square is below 2^31.
IntSqrt(n) == Bisect(n, 0, Min(n, 46340) + 1)

\* sklearn's cosine_similarity: rows are divided by their norm, a row of
\* norm zero is left as it is, and the matrix is the product of the
\* normalised rows with themselves.
Cosine(a, b) ==
    IF Dot(a, a) = 0 \/ Dot(b, b) = 0 THEN 0
    ELSE (Scale * Dot(a, b)) \div IntSqrt(Dot(a, a) * Dot(b, b))

CalculateSimilarityMatrix(features) ==
    IF features = <<>> THEN <<>>
    ELSE [i \in 1..Len(features) |->
            [j \in 1..Len(features) |-> Cosine(features[i], features[j])]]

\* ------------------------------------------------------------- ranking
\* A variant of the test that also takes a score equal to the threshold.
IsCandidateInclusive(user_idx, other_idx, similarity_score) ==
    other_idx # user_idx /\ similarity_score >= min_similarity_threshold

\* A variant of the test that takes only the rows after the source row.
IsCandidateLaterRows(user_idx, other_idx, similarity_score) ==
    other_idx > user_idx /\ similarity_score > min_similarity_threshold

\* A variant of the test that does not skip the source row.
IsCandidateWithSelf(user_idx, other_idx, similarity_score) ==
    similarity_score > min_similarity_threshold

\* The test of the candidate loop: not the source row itself, and a score
\* strictly above the threshold.
IsCandidate(user_idx, other_idx, similarity_score) ==
    other_idx # user_idx /\ similarity_score > min_similarity_threshold

\* A variant of the buckets with exclusive lower bounds.
ConfidenceExclusive(similarity_score) ==
    IF similarity_score > 80 THEN "very_high"
    ELSE IF similarity_score > 60 THEN "high"
    ELSE IF similarity_score > 40 THEN "medium"
    ELSE "low"

\* helpers.calculate_recommendation_confidence
CalculateRecommendationConfidence(similarity_score) ==
    IF similarity_score >= 80 THEN "very_high"
    ELSE IF similarity_score >= 60 THEN "high"
    ELSE IF similarity_score >= 40 THEN "medium"
    ELSE "low"

\* One recommendation dictionary.
MakeRecommendation(df, user_idx, other_idx, similarity_score) ==
    [user_id |-> df[user_idx].user_id,
     recommended_user_id |-> df[other_idx].user_id,
     similarity_score |-> similarity_score,
     confidence_level |-> CalculateRecommendationConfidence(similarity_score)]

\* The candidate loop, in the order of enumerate(user_similarities).
RECURSIVE CandidatesUpTo(_, _, _, _)
CandidatesUpTo(df, similarity_matrix, user_idx, n) ==
    IF n = 0 THEN <<>>
    ELSE LET before == CandidatesUpTo(df, similarity_matrix, user_idx, n - 1)
             score == similarity_matrix[user_idx][n]
         IN IF IsCandidate(user_idx, n, score)
            THEN Append(before, MakeRecommendation(df, user_idx, n, score))
            ELSE before

\* list.sort(key=similarity_score, reverse=True): a stable sort, so entries
\* of equal score keep the order they were appended in.
RECURSIVE InsertByScore(_, _)
InsertByScore(x, s) ==
    IF s = <<>> THEN <<x>>
    ELSE IF Head(s).similarity_score >= x.similarity_score
         THEN <<Head(s)>> \o InsertByScore(x, Tail(s))
         ELSE <<x>> \o s

\* A variant that leaves the candidates in the order they were appended in.
KeepAppendOrder(s) == s

RECURSIVE SortByScore(_)
SortByScore(s) ==
    IF s = <<>> THEN <<>>
    ELSE InsertByScore(s[Len(s)], SortByScore(SubSeq(s, 1, Len(s) - 1)))

\* recommendations[:max_recommendations]
Truncate(s, max_recommendations) == Take(s, max_recommendations)

GenerateUserRecommendations(df, similarity_matrix, user_idx, max_recommendations) ==
    Truncate(SortByScore(CandidatesUpTo(df, similarity_matrix, user_idx, Len(df))),
             max_recommendations)


\* ---------------------------------------------------------------- state
VARIABLES
    users,            \* users table: user id -> profile
    attendees,        \* event_attendees table: event id -> set of user ids
    recommendations,  \* recommendations table: set of stored rows
    call              \* the operation that completed last, and what it returned

vars == <<users, attendees, recommendations, call>>

Idle == [op |-> "idle"]

\* Ids a caller may pass: those of the tables, 0, and an id of no row.
EventIds == Events \cup {MissingId}
UserIds == Users \cup {0, MissingId}

AttendeesOf(event_id) == IF event_id \in Events THEN attendees[event_id] ELSE {}

\* The query of get_event_attendees_data has no ORDER BY: the rows come in
\* an order the database chooses, here `order`.
GetEventAttendeesData(event_id, order) ==
    [k \in 1..Len(order) |-> AttendeeRow(order[k], users[order[k]])]

\* Python truthiness of Optional[int]: None and 0 are false.
Truthy(x) == x # None /\ x # Some(0)

\* The positions of df whose user_id is target_user_id.
UserIndices(df, target_user_id) ==
    {k \in 1..Len(df) : df[k].user_id = target_user_id[1]}

\* The loop over range(len(df)), extending the list by each user's
\* recommendations.
RECURSIVE AllUsersUpTo(_, _, _, _)
AllUsersUpTo(df, similarity_matrix, max_recommendations, n) ==
    IF n = 0 THEN <<>>
    ELSE AllUsersUpTo(df, similarity_matrix, max_recommendations, n - 1)
         \o GenerateUserRecommendations(df, similarity_matrix, n, max_recommendations)

\* A variant that goes on to the save where the code returns early.
RankWithoutEarlyReturn(df, similarity_matrix, target_user_id, max_recommendations) ==
    LET early == [path |-> "ranked", result |-> <<>>]
    IN IF Len(df) < 2 THEN early
       ELSE IF similarity_matrix = <<>> THEN early
       ELSE IF Truthy(target_user_id)
            THEN IF UserIndices(df, target_user_id) = {} THEN early
                 ELSE [path |-> "ranked",
                       result |-> GenerateUserRecommendations(
                           df, similarity_matrix,
                           CHOOSE k \in UserIndices(df, target_user_id) :
                               \A m \in UserIndices(df, target_user_id) : k <= m,
                           max_recommendations)]
            ELSE [path |-> "ranked",
                  result |-> AllUsersUpTo(df, similarity_matrix,
                                          max_recommendations, Len(df))]

\* generate_recommendations from the similarity matrix up to the save:
\* "early" with the empty list on each early return, else "ranked" with the
\* list to be saved.
Rank(df, similarity_matrix, target_user_id, max_recommendations) ==
    LET early == [path |-> "early", result |-> <<>>]
    IN IF Len(df) < 2 THEN early
       ELSE IF similarity_matrix = <<>> THEN early
       ELSE IF Truthy(target_user_id)
            THEN IF UserIndices(df, target_user_id) = {} THEN early
                 ELSE [path |-> "ranked",
                       result |-> GenerateUserRecommendations(
                           df, similarity_matrix,
                           CHOOSE k \in UserIndices(df, target_user_id) :
                               \A m \in UserIndices(df, target_user_id) : k <= m,
                           max_recommendations)]
            ELSE [path |-> "ranked",
                  result |-> AllUsersUpTo(df, similarity_matrix,
                                          max_recommendations, Len(df))]

\* The row inserted for one recommendation.
StoredRow(event_id, rec) ==
    [user_id |-> rec.user_id,
     recommended_user_id |-> rec.recommended_user_id,
     event_id |-> event_id,
     similarity_score |-> rec.similarity_score]

RowKey(row) == <<row.user_id, row.recommended_user_id, row.event_id>>

\* The recommendations table is held as the set of its rows.
\* UniqueConstraint('user_id', 'recommended_user_id', 'event_id'): the rows
\* of the event are deleted first and no other row has its event_id, so the
\* constraint can only be violated among the inserted rows.
ViolatesUnique(event_id, recs) ==
    \E a, b \in 1..Len(recs) :
        a # b /\ RowKey(StoredRow(event_id, recs[a])) = RowKey(StoredRow(event_id, recs[b]))

\* A variant that inserts without the delete.
Merged(table, event_id, recs) ==
    table \cup {StoredRow(event_id, recs[k]) : k \in 1..Len(recs)}

\* A variant whose delete is not filtered by the event.
ReplacedEverywhere(table, event_id, recs) ==
    {StoredRow(event_id, recs[k]) : k \in 1..Len(recs)}

\* The table after the delete of the event's rows and the inserts.
Replaced(table, event_id, recs) ==
    {row \in table : row.event_id # event_id}
    \cup {StoredRow(event_id, recs[k]) : k \in 1..Len(recs)}

\* A variant whose failure keeps the delete of the event's rows.
SaveWithoutRollback(table, event_id, recs, db_fault) ==
    IF db_fault \/ ViolatesUnique(event_id, recs)
    THEN [committed |-> FALSE, table |-> {row \in table : row.event_id # event_id}]
    ELSE [committed |-> TRUE, table |-> Replaced(table, event_id, recs)]

\* _save_recommendations_to_db: delete, insert, commit; on any exception
\* (a fault of the database, a violated constraint) rollback.
SaveRecommendationsToDb(table, event_id, recs, db_fault) ==
    IF db_fault \/ ViolatesUnique(event_id, recs)
    THEN [committed |-> FALSE, table |-> table]
    ELSE [committed |-> TRUE, table |-> Replaced(table, event_id, recs)]

StoredFor(event_id) == {row \in recommendations : row.event_id = event_id}

\* ------------------------------------------------------------- actions
\* A variant without the check for an existing registration.
RegisterWithoutExistingCheck(event_id, user_id) ==
    /\ IF event_id \notin Events \/ user_id \notin Users
       THEN /\ call' = [op |-> "register", event_id |-> event_id,
                        user_id |-> user_id, status |-> 404]
            /\ UNCHANGED attendees
       ELSE /\ call' = [op |-> "register", event_id |-> event_id,
                        user_id |-> user_id, status |-> 200]
            /\ attendees' = [attendees EXCEPT ![event_id] = @ \cup {user_id}]
    /\ UNCHANGED <<users, recommendations>>

\* POST /events/{event_id}/register/{user_id}
RegisterUserForEvent(event_id, user_id) ==
    /\ IF event_id \notin Events \/ user_id \notin Users
       THEN /\ call' = [op |-> "register", event_id |-> event_id,
                        user_id |-> user_id, status |-> 404]
            /\ UNCHANGED attendees
       ELSE IF user_id \in attendees[event_id]
       THEN /\ call' = [op |-> "register", event_id |-> event_id,
                        user_id |-> user_id, status |-> 400]
            /\ UNCHANGED attendees
       ELSE /\ call' = [op |-> "register", event_id |-> event_id,
                        user_id |-> user_id, status |-> 200]
            /\ attendees' = [attendees EXCEPT ![event_id] = @ \cup {user_id}]
    /\ UNCHANGED <<users, recommendations>>

\* RecommendationEngine.generate_recommendations.  Each intermediate value
\* is bound once, as the code binds its local variables; an empty feature
\* matrix gives an empty similarity matrix, so the two early returns on
\* them are one.
GenerateRecommendations(event_id, order) ==
    \E df \in {GetEventAttendeesData(event_id, order)} :
    \E similarity_matrix \in {CalculateSimilarityMatrix(CreateUserFeatures(df))} :
    \E target_user_id \in {None} \cup {Some(u) : u \in UserIds},
       max_recommendations \in 1..MaxRecommendations,
       db_fault \in BOOLEAN :
    \E ranked \in {Rank(df, similarity_matrix, target_user_id, max_recommendations)} :
    \E saved \in {SaveRecommendationsToDb(recommendations, event_id,
                                          ranked.result, db_fault)} :
       /\ recommendations' = IF ranked.path = "early" THEN recommendations
                             ELSE saved.table
       /\ call' = [op |-> "generate_recommendations",
                   event_id |-> event_id,
                   target_user_id |-> target_user_id,
                   max_recommendations |-> max_recommendations,
                   path |-> IF ranked.path = "early" THEN "early"
                            ELSE IF saved.committed THEN "committed"
                            ELSE "rolled_back",
                   deleted |-> IF ranked.path = "ranked" /\ saved.committed
                               THEN StoredFor(event_id) ELSE {},
                   result |-> ranked.result]
       /\ UNCHANGED <<users, attendees>>

\* The profiles of the users table: two with text and experience, whose
\* similarity (0.26) lies between the two thresholds, and one left empty.
MainProfiles ==
    {[text |-> <<40, 0>>, experience_years |-> Some(30)],
     [text |-> <<0, 40>>, experience_years |-> Some(20)],
     [text |-> <<0, 0>>, experience_years |-> None]}

Init ==
    /\ users \in [Users -> MainProfiles]
    /\ attendees = [e \in Events |-> {}]
    /\ recommendations = {}
    /\ call = Idle

Next ==
    \/ \E event_id \in EventIds, user_id \in UserIds :
          RegisterUserForEvent(event_id, user_id)
    \/ \E event_id \in EventIds :
          \E order \in Orderings(AttendeesOf(event_id)) :
             GenerateRecommendations(event_id, order)

Spec == Init /\ [][Next]_vars

\* ------------------------------------------- one population of the tables
\* The same requests over one users table: two users with text and
\* experience, every other user left empty.
FixedUsers ==
    [u \in Users |->
        IF u = 1 THEN [text |-> <<40, 0>>, experience_years |-> Some(30)]
        ELSE IF u = 2 THEN [text |-> <<0, 40>>, experience_years |-> Some(20)]
        ELSE [text |-> <<0, 0>>, experience_years |-> None]]

InitSave ==
    /\ users = FixedUsers
    /\ attendees = [e \in Events |-> {}]
    /\ recommendations = {}
    /\ call = Idle

SpecSave == InitSave /\ [][Next]_vars

\* --------------------------------------------------- the save on its own
\* _save_recommendations_to_db on a table that holds rows of several
\* events, with lists of up to MaxSaved recommendations between two users.
NumStoredEvents == 2
MaxSaved == 2

StoredEvents == 1..NumStoredEvents

SavedRecs ==
    {[user_id |-> p[1], recommended_user_id |-> p[2], similarity_score |-> sc,
      confidence_level |-> CalculateRecommendationConfidence(sc)] :
        p \in {<<1, 2>>, <<2, 1>>}, sc \in {50, 70}}

SavedLists == UNION {[1..n -> SavedRecs] : n \in 0..MaxSaved}

\* The tables the unique constraint admits, of rows an earlier save stored.
StoredTables ==
    SUBSET {StoredRow(e, rec) : e \in StoredEvents,
                                rec \in {r \in SavedRecs : r.similarity_score = 50}}

InitStore ==
    /\ users = [u \in Users |-> [text |-> <<0, 0>>, experience_years |-> None]]
    /\ attendees = [e \in Events |-> {}]
    /\ recommendations \in StoredTables
    /\ \E event_id \in StoredEvents, recs \in SavedLists :
          call = [op |-> "save_input", event_id |-> event_id, recs |-> recs]

Store ==
    /\ call.op = "save_input"
    /\ \E db_fault \in BOOLEAN :
       \E saved \in {SaveRecommendationsToDb(recommendations, call.event_id,
                                             call.recs, db_fault)} :
          /\ recommendations' = saved.table
          /\ call' = [op |-> "save", event_id |-> call.event_id,
                      recs |-> call.recs, before |-> recommendations,
                      committed |-> saved.committed]
    /\ UNCHANGED <<users, attendees>>

NextStore == Store

SpecStore == InitStore /\ [][NextStore]_vars

\* ------------------------------------------------- registration on its own
\* GET /events/{event_id}: attendee_count is the count of the event's rows
\* of event_attendees.
GetEvent(event_id) ==
    /\ call' = IF event_id \notin Events
               THEN [op |-> "get_event", event_id |-> event_id, status |-> 404]
               ELSE [op |-> "get_event", event_id |-> event_id, status |-> 200,
                     attendee_count |-> Cardinality(attendees[event_id])]
    /\ UNCHANGED <<users, attendees, recommendations>>

NextRegister ==
    \/ \E event_id \in EventIds, user_id \in UserIds :
          RegisterUserForEvent(event_id, user_id)
    \/ \E event_id \in EventIds : GetEvent(event_id)

SpecRegister == Init /\ [][NextRegister]_vars

\* ------------------------------------------------------------ clustering
\* A graph: its nodes in the order they were added, and its edges, each
\* the set of its two ends with a weight.
EmptyGraph == [nodes |-> <<>>, edges |-> {}]

\* The test of the edge loop: the score strictly above the threshold.
HasEdge(similarity_matrix, i, j) == similarity_matrix[i][j] > similarity_threshold

\* G.add_edge(user1_id, user2_id, weight=similarity_matrix[i, j])
Edge(df, similarity_matrix, i, j) ==
    [ends |-> {df[i].user_id, df[j].user_id}, weight |-> similarity_matrix[i][j]]

\* ClusteringService.create_network_graph
CreateNetworkGraph(df) ==
    IF Len(df) < 2 THEN EmptyGraph
    ELSE LET features == CreateUserFeatures(df)
             similarity_matrix == CalculateSimilarityMatrix(features)
         IN [nodes |-> [k \in 1..Len(df) |-> df[k].user_id],
             edges |-> IF features = <<>> THEN {}
                       ELSE {Edge(df, similarity_matrix, p[1], p[2]) :
                                p \in {q \in IndexPairs(Len(df)) :
                                         HasEdge(similarity_matrix, q[1], q[2])}}]

\* All partitions of a finite set.
RECURSIVE Partitions(_)
Partitions(S) ==
    IF S = {} THEN {{}}
    ELSE LET x == CHOOSE y \in S : TRUE
         IN UNION {{P \cup {{x}}} \cup {(P \ {B}) \cup {B \cup {x}} : B \in P} :
                     P \in Partitions(S \ {x})}

\* What a community-detection algorithm of networkx may return for a graph:
\* its nodes partitioned into communities, listed in some order.
CommunityLists(G) == UNION {Orderings(P) : P \in Partitions(Range(G.nodes))}

\* A set of user ids in ascending order, the order CPython iterates a set
\* of small integers in.
RECURSIVE Ascending(_)
Ascending(S) ==
    IF S = {} THEN <<>>
    ELSE LET x == CHOOSE y \in S : \A z \in S : y <= z
         IN <<x>> \o Ascending(S \ {x})

\* {node: 0 for node in G.nodes()}
SingleCommunity(G) ==
    [k \in 1..Len(G.nodes) |-> [user_id |-> G.nodes[k], cluster_id |-> 0]]

\* A variant that numbers the communities from 1.
RECURSIVE MappingFromOne(_, _)
MappingFromOne(communities, n) ==
    IF n = 0 THEN <<>>
    ELSE MappingFromOne(communities, n - 1)
         \o [k \in 1..Cardinality(communities[n]) |->
               [user_id |-> Ascending(communities[n])[k], cluster_id |-> n]]

\* The mapping built from enumerate(communities); a dict, held as the
\* sequence of its items in insertion order.
RECURSIVE MappingUpTo(_, _)
MappingUpTo(communities, n) ==
    IF n = 0 THEN <<>>
    ELSE MappingUpTo(communities, n - 1)
         \o [k \in 1..Cardinality(communities[n]) |->
               [user_id |-> Ascending(communities[n])[k], cluster_id |-> n - 1]]

\* Whether detect_communities reaches the call of a networkx algorithm.
AlgorithmInvoked(G) == ~(Len(G.nodes) < 3)

\* A variant without the early return for small graphs.
DetectWithoutEarlyReturn(G, communities, raised) ==
    IF raised THEN SingleCommunity(G)
    ELSE MappingUpTo(communities, Len(communities))

\* ClusteringService.detect_communities; `communities` is what the
\* algorithm returned, and `raised` says that it raised instead.
DetectCommunities(G, communities, raised) ==
    IF Len(G.nodes) < 3 THEN SingleCommunity(G)
    ELSE IF raised THEN SingleCommunity(G)
    ELSE MappingUpTo(communities, Len(communities))

Degree(G, user_id) == Cardinality({e \in G.edges : user_id \in e.ends})

ClusterIds(community_mapping) ==
    {community_mapping[k].cluster_id : k \in 1..Len(community_mapping)}

\* The cluster ids in the order the mapping first names them: the key order
\* of clusters_dict.
RECURSIVE FirstSeen(_)
FirstSeen(community_mapping) ==
    IF community_mapping = <<>> THEN <<>>
    ELSE LET before == FirstSeen(SubSeq(community_mapping, 1, Len(community_mapping) - 1))
             last == community_mapping[Len(community_mapping)].cluster_id
         IN IF last \in Range(before) THEN before ELSE Append(before, last)

\* clusters_dict[cluster_id]["members"]: every user of the mapping has a row
\* in the users table.
Members(G, community_mapping, cluster_id) ==
    LET items == SelectSeq(community_mapping, LAMBDA it : it.cluster_id = cluster_id)
    IN [k \in 1..Len(items) |->
          [user_id |-> items[k].user_id, degree |-> Degree(G, items[k].user_id)]]

\* A variant of the size test that is off by one.
IsRetainedOffByOne(members, min_cluster_size) == Len(members) + 1 >= min_cluster_size

\* The size test of the final loop of _create_clusters.
IsRetained(members, min_cluster_size) == Len(members) >= min_cluster_size

\* ClusteringService._create_clusters
CreateClusters(G, community_mapping, min_cluster_size) ==
    LET all == [k \in 1..Len(FirstSeen(community_mapping)) |->
                  [cluster_id |-> FirstSeen(community_mapping)[k],
                   size |-> Len(Members(G, community_mapping,
                                        FirstSeen(community_mapping)[k])),
                   members |-> Members(G, community_mapping,
                                       FirstSeen(community_mapping)[k])]]
    IN SelectSeq(all, LAMBDA c : IsRetained(c.members, min_cluster_size))

SizeOf(community_mapping, cluster_id) ==
    Cardinality({k \in 1..Len(community_mapping) :
                    community_mapping[k].cluster_id = cluster_id})

\* The sum of the weights of a set of edges.
RECURSIVE WeightSum(_)
WeightSum(E) ==
    IF E = {} THEN 0
    ELSE LET e == CHOOSE x \in E : TRUE
         IN e.weight + WeightSum(E \ {e})

\* The users the mapping assigns to a community.
CommunityMembers(community_mapping, cluster_id) ==
    {community_mapping[k].user_id :
        k \in {m \in 1..Len(community_mapping) :
                  community_mapping[m].cluster_id = cluster_id}}

\* sum(G.degree(weight="weight")): every edge counts at both of its ends.
DegreeSum(G) == 2 * WeightSum(G.edges)

\* networkx's modularity computes norm = 1 / deg_sum**2 and so raises
\* ZeroDivisionError on a graph without edges.
ModularityRaises(G) == DegreeSum(G) = 0

\* The quotient num / den rounded to the nearest integer, den > 0.
RoundDiv(num, den) ==
    LET q == num \div den
    IN IF 2 * (num - q * den) >= den THEN q + 1 ELSE q

\* L_c / m - (d_c / 2m)^2 summed over the communities, which is
\* (2 * L_c * D - d_c^2) / D^2 with D the degree sum, times D^2.
RECURSIVE ContributionSum(_, _, _)
ContributionSum(G, community_mapping, ids) ==
    IF ids = {} THEN 0
    ELSE LET c == CHOOSE x \in ids : TRUE
             comm == CommunityMembers(community_mapping, c)
             L_c == WeightSum({e \in G.edges : e.ends \subseteq comm})
             d_c == L_c * 2 + WeightSum({e \in G.edges :
                                           e.ends \cap comm # {}
                                           /\ ~(e.ends \subseteq comm)})
         IN (2 * L_c * DegreeSum(G) - d_c * d_c)
            + ContributionSum(G, community_mapping, ids \ {c})

\* round(nx.algorithms.community.modularity(G, communities), 3), in
\* thousandths; defined where the degree sum is not zero.
Modularity(G, community_mapping) ==
    RoundDiv(Thousand * ContributionSum(G, community_mapping,
                                        ClusterIds(community_mapping)),
             DegreeSum(G) * DegreeSum(G))

\* modularity = 0.0; if len(communities) > 1: try ... except: 0.0
GuardedModularity(G, community_mapping) ==
    IF Cardinality(ClusterIds(community_mapping)) > 1
    THEN IF ModularityRaises(G) THEN 0 ELSE Modularity(G, community_mapping)
    ELSE 0

\* The dictionary _calculate_cluster_stats returns, but for the average.
StatsRecord(G, community_mapping, modularity) ==
    LET sizes == {SizeOf(community_mapping, c) : c \in ClusterIds(community_mapping)}
    IN [total_nodes |-> Len(G.nodes),
        total_edges |-> Cardinality(G.edges),
        num_clusters |-> Cardinality(ClusterIds(community_mapping)),
        modularity |-> modularity,
        largest_cluster_size |->
            IF sizes = {} THEN 0 ELSE CHOOSE m \in sizes : \A n \in sizes : n <= m,
        smallest_cluster_size |->
            IF sizes = {} THEN 0 ELSE CHOOSE m \in sizes : \A n \in sizes : m <= n]

\* A variant without the inner try/except around the modularity: the
\* exception reaches the outer except branch, which returns {}.
StatsWithoutInnerExcept(G, community_mapping) ==
    IF Cardinality(ClusterIds(community_mapping)) > 1 /\ ModularityRaises(G)
    THEN <<>>
    ELSE StatsRecord(G, community_mapping,
                     IF Cardinality(ClusterIds(community_mapping)) > 1
                     THEN Modularity(G, community_mapping) ELSE 0)

\* ClusteringService._calculate_cluster_stats
CalculateClusterStats(G, community_mapping) ==
    StatsRecord(G, community_mapping, GuardedModularity(G, community_mapping))

\* The statistics analyze_clusters reports for a graph without nodes.
EmptyStats ==
    [total_nodes |-> 0, total_edges |-> 0, num_clusters |-> 0, modularity |-> 0]

AlgorithmNames == {"louvain", "girvan_newman", "label_propagation", "other"}

\* The names ClusterAnalysisResponse.algorithm_used accepts.
ClusteringAlgorithm == {"louvain", "girvan_newman", "label_propagation"}

MaxMinClusterSize == 3

\* ClusterAnalysisRequest.similarity_threshold: Optional[float] in [0, 1].
RequestThresholds == {None, Some(20), Some(50)}

\* POST /clustering/analyze and ClusteringService.analyze_clusters.  The
\* route passes event_id, algorithm and min_cluster_size on; the request's
\* similarity_threshold is received and read nowhere.  A missing event
\* raises ValueError, an algorithm name outside the enumeration fails the
\* validation of the response, and the except branch re-raises both.
AnalyzeClusters(event_id, order) ==
    \E algorithm \in AlgorithmNames, min_cluster_size \in 1..MaxMinClusterSize,
       request_threshold \in RequestThresholds :
    IF event_id \notin Events \/ algorithm \notin ClusteringAlgorithm
    THEN /\ call' = [op |-> "analyze_clusters", event_id |-> event_id,
                     algorithm |-> algorithm, min_cluster_size |-> min_cluster_size,
                     request_threshold |-> request_threshold,
                     raised |-> TRUE]
         /\ UNCHANGED <<users, attendees, recommendations>>
    ELSE
    \E df \in {GetEventAttendeesData(event_id, order)} :
    \E G \in {CreateNetworkGraph(df)} :
    IF Len(G.nodes) = 0
    THEN /\ call' = [op |-> "analyze_clusters", event_id |-> event_id,
                     algorithm |-> algorithm, min_cluster_size |-> min_cluster_size,
                     request_threshold |-> request_threshold,
                     raised |-> FALSE, df |-> df, G |-> G,
                     community_mapping |-> <<>>,
                     clusters |-> <<>>, cluster_stats |-> EmptyStats]
         /\ UNCHANGED <<users, attendees, recommendations>>
    ELSE
    \E communities \in CommunityLists(G), algorithm_raised \in BOOLEAN :
    \E community_mapping \in {DetectCommunities(G, communities, algorithm_raised)} :
       /\ call' = [op |-> "analyze_clusters", event_id |-> event_id,
                   algorithm |-> algorithm, min_cluster_size |-> min_cluster_size,
                     request_threshold |-> request_threshold,
                   raised |-> FALSE, df |-> df, G |-> G,
                   community_mapping |-> community_mapping,
                   clusters |-> CreateClusters(G, community_mapping, min_cluster_size),
                   cluster_stats |-> CalculateClusterStats(G, community_mapping)]
       /\ UNCHANGED <<users, attendees, recommendations>>

\* --------------------------------------------- the ranker on its own
\* _generate_user_recommendations takes the frame and the matrix as
\* arguments.  SpecRank draws them: a frame of distinct user ids in any
\* order, and a symmetric matrix with diagonal 1.00 whose other entries are
\* the threshold itself and two scores above it.
ScoreValues == {min_similarity_threshold, 20, 50}

SymmetricMatrix(n, f) ==
    [i \in 1..n |-> [j \in 1..n |->
        IF i = j THEN Scale ELSE IF i < j THEN f[<<i, j>>] ELSE f[<<j, i>>]]]

Frames == UNION {{[k \in 1..Len(o) |-> [user_id |-> o[k]]] : o \in Orderings(S)} :
                 S \in SUBSET Users \ {{}}}

InitRank ==
    /\ users = [u \in Users |-> [text |-> <<0, 0>>, experience_years |-> None]]
    /\ attendees = [e \in Events |-> {}]
    /\ recommendations = {}
    /\ \E df \in Frames :
       \E f \in [IndexPairs(Len(df)) -> ScoreValues] :
          call = [op |-> "rank_input", df |-> df,
                  similarity_matrix |-> SymmetricMatrix(Len(df), f)]

RankUser ==
    /\ call.op = "rank_input"
    /\ \E user_idx \in 1..Len(call.df),
          max_recommendations \in 1..MaxRecommendations :
          call' = [op |-> "rank", df |-> call.df,
                   similarity_matrix |-> call.similarity_matrix,
                   user_idx |-> user_idx,
                   max_recommendations |-> max_recommendations,
                   result |-> GenerateUserRecommendations(
                       call.df, call.similarity_matrix, user_idx,
                       max_recommendations)]
    /\ UNCHANGED <<users, attendees, recommendations>>

NextRank == RankUser

SpecRank == InitRank /\ [][NextRank]_vars

\* ------------------------------------------- the response of the endpoint
\* POST /recommendations/generate groups the list the engine returned by
\* its source user.  A user's name is held as a record naming the user, so
\* that different users have different names.
UserName(user_id) == [name_of |-> user_id]

\* The entry appended to user_recommendations[rec['user_id']].
RecommendationItem(rec) ==
    [recommended_user_id |-> rec.recommended_user_id,
     recommended_user_name |-> UserName(rec.recommended_user_id),
     similarity_score |-> rec.similarity_score,
     confidence_level |-> rec.confidence_level]

\* The keys of user_recommendations in insertion order.
RECURSIVE SourceUsers(_)
SourceUsers(recs) ==
    IF recs = <<>> THEN <<>>
    ELSE LET before == SourceUsers(SubSeq(recs, 1, Len(recs) - 1))
             last == recs[Len(recs)].user_id
         IN IF last \in Range(before) THEN before ELSE Append(before, last)

\* user_recommendations[user_id]
UserRecommendations(recs, user_id) ==
    LET own == SelectSeq(recs, LAMBDA rec : rec.user_id = user_id)
    IN [k \in 1..Len(own) |-> RecommendationItem(own[k])]

\* One element of formatted_recommendations.
RecommendationResponse(user_id, user_recs) ==
    [user_id |-> user_id,
     user_name |-> user_recs[1].recommended_user_name,
     total_recommendations |-> Len(user_recs),
     recommended_users |-> user_recs]

\* The BulkRecommendationResponse of the route for the engine's list.
BulkRecommendationResponse(recs) ==
    IF recs = <<>> THEN [recommendations |-> <<>>, total_users |-> 0]
    ELSE LET formatted_recommendations ==
                 [k \in 1..Len(SourceUsers(recs)) |->
                     RecommendationResponse(
                         SourceUsers(recs)[k],
                         UserRecommendations(recs, SourceUsers(recs)[k]))]
         IN [recommendations |-> formatted_recommendations,
             total_users |-> Len(formatted_recommendations)]

Respond ==
    /\ call.op = "rank_input"
    /\ \E target_user_id \in {None} \cup {Some(call.df[k].user_id) : k \in 1..Len(call.df)},
          max_recommendations \in 1..MaxRecommendations :
       \E recs \in {Rank(call.df, call.similarity_matrix, target_user_id,
                          max_recommendations).result} :
          call' = [op |-> "respond", df |-> call.df,
                   target_user_id |-> target_user_id,
                   max_recommendations |-> max_recommendations,
                   engine_result |-> recs,
                   response |-> BulkRecommendationResponse(recs)]
    /\ UNCHANGED <<users, attendees, recommendations>>

NextRespond == Respond

SpecRespond == InitRank /\ [][NextRespond]_vars

\* SpecConfidence ranks a frame of two users under every score from 0.00
\* to 1.00.
InitConfidence ==
    /\ users = [u \in Users |-> [text |-> <<0, 0>>, experience_years |-> None]]
    /\ attendees = [e \in Events |-> {}]
    /\ recommendations = {}
    /\ \E df \in {d \in Frames : Len(d) = 2}, score \in 0..Scale :
          call = [op |-> "rank_input", df |-> df,
                  similarity_matrix |->
                      SymmetricMatrix(2, [p \in IndexPairs(2) |-> score])]

SpecConfidence == InitConfidence /\ [][NextRank]_vars

\* ------------------------------------ features and similarity on their own
\* SpecSim draws a batch of attendee rows and applies the feature builder
\* and the similarity matrix to it.
MaxBatch == 3

Batches == UNION {[1..n -> Profiles] : n \in 0..MaxBatch}

InitSim ==
    /\ users = [u \in Users |-> [text |-> <<0, 0>>, experience_years |-> None]]
    /\ attendees = [e \in Events |-> {}]
    /\ recommendations = {}
    /\ \E b \in Batches :
          call = [op |-> "similarity_input",
                  df |-> [k \in 1..Len(b) |-> AttendeeRow(k, b[k])]]

ComputeSimilarity ==
    /\ call.op = "similarity_input"
    /\ \E features \in {CreateUserFeatures(call.df)} :
          call' = [op |-> "similarity", df |-> call.df,
                   features |-> features,
                   similarity_matrix |-> CalculateSimilarityMatrix(features)]
    /\ UNCHANGED <<users, attendees, recommendations>>

NextSim == ComputeSimilarity

SpecSim == InitSim /\ [][NextSim]_vars

\* ------------------------------------------------ clustering on its own
\* SpecCluster starts from any users table and any registrations of the
\* events, and analyses the clusters of an event.
InitCluster ==
    /\ users \in [Users -> MainProfiles]
    /\ attendees \in [Events -> SUBSET Users]
    /\ recommendations = {}
    /\ call = Idle

NextCluster ==
    /\ call = Idle
    /\ \E event_id \in EventIds :
          \E order \in Orderings(AttendeesOf(event_id)) :
             AnalyzeClusters(event_id, order)

SpecCluster == InitCluster /\ [][NextCluster]_vars

\* ------------------------------------------- cluster assembly on its own
\* _create_clusters and _calculate_cluster_stats take the graph and the
\* community mapping as arguments.  SpecAssemble draws them: a graph over
\* any users with any edges, and any assignment of its nodes to communities.
Graphs ==
    UNION {{[nodes |-> Ascending(S),
             edges |-> {[ends |-> e, weight |-> Scale] : e \in E}] :
               E \in SUBSET {e \in SUBSET S : Cardinality(e) = 2}} :
           S \in SUBSET Users \ {{}}}

InitAssemble ==
    /\ users = [u \in Users |-> [text |-> <<0, 0>>, experience_years |-> None]]
    /\ attendees = [e \in Events |-> {}]
    /\ recommendations = {}
    /\ \E G \in Graphs :
       \E communities \in CommunityLists(G),
          min_cluster_size \in 1..MaxMinClusterSize :
          call = [op |-> "assemble_input", G |-> G,
                  community_mapping |-> MappingUpTo(communities, Len(communities)),
                  min_cluster_size |-> min_cluster_size]

Assemble ==
    /\ call.op = "assemble_input"
    /\ call' = [op |-> "assemble", G |-> call.G,
                community_mapping |-> call.community_mapping,
                min_cluster_size |-> call.min_cluster_size,
                clusters |-> CreateClusters(call.G, call.community_mapping,
                                            call.min_cluster_size),
                cluster_stats |-> CalculateClusterStats(call.G,
                                                        call.community_mapping)]
    /\ UNCHANGED <<users, attendees, recommendations>>

NextAssemble == Assemble

SpecAssemble == InitAssemble /\ [][NextAssemble]_vars

\* ---------------------------------------- community detection on its own
\* detect_communities takes the graph and the algorithm name as arguments.
\* SpecDetect draws a graph, the empty one included, and applies it, and
\* then _calculate_cluster_stats to the graph and the assignment, as
\* analyze_clusters does.
InitDetect ==
    /\ users = [u \in Users |-> [text |-> <<0, 0>>, experience_years |-> None]]
    /\ attendees = [e \in Events |-> {}]
    /\ recommendations = {}
    /\ \E G \in Graphs \cup {EmptyGraph} :
          call = [op |-> "detect_input", G |-> G]

Detect ==
    /\ call.op = "detect_input"
    /\ \E algorithm \in AlgorithmNames,
          communities \in CommunityLists(call.G),
          algorithm_raised \in BOOLEAN :
       \E community_mapping \in
             {DetectCommunities(call.G, communities, algorithm_raised)} :
          call' = [op |-> "detect", G |-> call.G, algorithm |-> algorithm,
                   invoked |-> AlgorithmInvoked(call.G),
                   community_mapping |-> community_mapping,
                   cluster_stats |-> CalculateClusterStats(call.G, community_mapping)]
    /\ UNCHANGED <<users, attendees, recommendations>>

NextDetect == Detect

SpecDetect == InitDetect /\ [][NextDetect]_vars

\* ------------------------------------- the dominant industry on its own
\* The members of one retained cluster, each by its user.industry in the
\* order _create_clusters appended them; "" is a user without industry
\* (None or the empty string, both false for `if user.industry`).
MaxMembers == 4

IndustryNames == {"", "Tech", "Finance", "Health"}

MemberIndustries == UNION {[1..n -> IndustryNames] : n \in 0..MaxMembers}

\* clusters_dict[cluster_id]["industries"]
Industries(member_industries) ==
    SelectSeq(member_industries, LAMBDA industry : industry # "")

CountOf(industries, industry) ==
    Cardinality({k \in 1..Len(industries) : industries[k] = industry})

\* The industries value_counts() may put first: those of the highest
\* count.  value_counts sorts the counts in descending order with
\* sort_values' default kind, which gives no order among equal counts.
TopIndustries(industries) ==
    {x \in Range(industries) :
        \A y \in Range(industries) : CountOf(industries, x) >= CountOf(industries, y)}

\* industry_counts.index[0] if len(industry_counts) > 0 else None
DominantIndustries(industries) ==
    IF industries = <<>> THEN {None}
    ELSE {Some(x) : x \in TopIndustries(industries)}

InitIndustry ==
    /\ users = [u \in Users |-> [text |-> <<0, 0>>, experience_years |-> None]]
    /\ attendees = [e \in Events |-> {}]
    /\ recommendations = {}
    /\ \E member_industries \in MemberIndustries :
          call = [op |-> "cluster_input", member_industries |-> member_industries]

FindDominantIndustry ==
    /\ call.op = "cluster_input"
    /\ \E dominant_industry \in DominantIndustries(Industries(call.member_industries)) :
          call' = [op |-> "cluster",
                   member_industries |-> call.member_industries,
                   size |-> Len(call.member_industries),
                   dominant_industry |-> dominant_industry]
    /\ UNCHANGED <<users, attendees, recommendations>>

NextIndustry == FindDominantIndustry

SpecIndustry == InitIndustry /\ [][NextIndustry]_vars

\* ------------------------------------------- the explanation on its own
\* _generate_recommendation_explanation reads industry, company,
\* experience_years, interests and goals of the two rows.  interests and
\* goals are the user's tags joined by ', '; here they are the set of the
\* tags.  The reason, the clauses joined by '; ', is held as the sequence
\* of its clauses, each a kind and the values it names.
InterestSets ==
    {{}, {"AI"}, {"ml", "web"}, {"ml", "web", "iot"}, {"ai", "ml", "web", "iot"}}
GoalSets ==
    {{}, {"Learn"}, {"teach"}, {"hire", "learn"}, {"job search"}, {"job_search"}}

ExplainRows ==
    [industry : {"", "Tech"}, company : {"", "Acme"},
     experience_years : {0, 3, 4},
     interests : InterestSets, goals : GoalSets]

ExplainScores == {40, 50, 70}

\* str.lower() on the tags of the model.
Lower(tag) ==
    CASE tag = "AI" -> "ai"
      [] tag = "Learn" -> "learn"
      [] OTHER -> tag

\* set(text.lower().split(', ')) without the empty string.
LowerSet(tags) == {Lower(t) : t \in tags}

Abs(x) == IF x < 0 THEN 0 - x ELSE x

Clause(kind, detail) == [kind |-> kind, detail |-> detail]

IndustryClause(user1, user2) ==
    IF user1.industry # "" /\ user1.industry = user2.industry
    THEN <<Clause("Both work in", <<user1.industry>>)>> ELSE <<>>

CompanyClause(user1, user2) ==
    IF user1.company # "" /\ user1.company = user2.company
    THEN <<Clause("Both work at", <<user1.company>>)>> ELSE <<>>

ExperienceClause(user1, user2) ==
    IF Abs(user1.experience_years - user2.experience_years) <= 3
    THEN <<Clause("Similar experience levels", <<>>)>> ELSE <<>>

CommonInterests(user1, user2) ==
    LowerSet(user1.interests) \cap LowerSet(user2.interests)

\* list(common_interests)[:3]; `order` is the order the set iterates in.
MutualInterests(order) == Take(order, 3)

InterestsClause(mutual_interests) ==
    IF mutual_interests # <<>>
    THEN <<Clause("Shared interests:", Take(mutual_interests, 2))>> ELSE <<>>

ComplementaryGoals(user1, user2) ==
    LET goals1 == LowerSet(user1.goals)
        goals2 == LowerSet(user2.goals)
    IN (IF "learn" \in goals1 /\ "teach" \in goals2
        THEN <<"Learning/Teaching match">> ELSE <<>>)
       \o (IF "teach" \in goals1 /\ "learn" \in goals2
           THEN <<"Teaching/Learning match">> ELSE <<>>)
       \o (IF "hire" \in goals1 /\ "job search" \in goals2
           THEN <<"Hiring/Job seeking match">> ELSE <<>>)
       \o (IF "job search" \in goals1 /\ "hire" \in goals2
           THEN <<"Job seeking/Hiring match">> ELSE <<>>)

GoalsClause(complementary_goals) ==
    IF complementary_goals # <<>>
    THEN <<Clause("Complementary networking goals", <<>>)>> ELSE <<>>

FallbackClause(similarity_score) ==
    IF similarity_score >= 70 THEN Clause("Strong profile compatibility", <<>>)
    ELSE IF similarity_score >= 50 THEN Clause("Good profile match", <<>>)
    ELSE Clause("Potential networking opportunity", <<>>)

\* A variant that appends the score band whatever the reasons are.
AlwaysFallback(reasons, similarity_score) ==
    Append(reasons, FallbackClause(similarity_score))

\* if not reasons: the score band is the only reason.
WithFallback(reasons, similarity_score) ==
    IF reasons = <<>> THEN <<FallbackClause(similarity_score)>> ELSE reasons

\* RecommendationEngine._generate_recommendation_explanation
GenerateRecommendationExplanation(user1, user2, similarity_score, order) ==
    LET mutual_interests == MutualInterests(order)
        complementary_goals == ComplementaryGoals(user1, user2)
        reasons == IndustryClause(user1, user2)
                   \o CompanyClause(user1, user2)
                   \o ExperienceClause(user1, user2)
                   \o InterestsClause(mutual_interests)
                   \o GoalsClause(complementary_goals)
    IN [reason |-> WithFallback(reasons, similarity_score),
        mutual_interests |-> mutual_interests,
        complementary_goals |-> complementary_goals]

InitExplain ==
    /\ users = [u \in Users |-> [text |-> <<0, 0>>, experience_years |-> None]]
    /\ attendees = [e \in Events |-> {}]
    /\ recommendations = {}
    /\ \E user1, user2 \in ExplainRows, similarity_score \in ExplainScores :
          call = [op |-> "explain_input", user1 |-> user1, user2 |-> user2,
                  similarity_score |-> similarity_score]

Explain ==
    /\ call.op = "explain_input"
    /\ \E order \in Orderings(CommonInterests(call.user1, call.user2)) :
       \E out \in {GenerateRecommendationExplanation(
                       call.user1, call.user2, call.similarity_score, order)} :
          call' = [op |-> "explain", user1 |-> call.user1, user2 |-> call.user2,
                   similarity_score |-> call.similarity_score,
                   reason |-> out.reason,
                   mutual_interests |-> out.mutual_interests,
                   complementary_goals |-> out.complementary_goals]
    /\ UNCHANGED <<users, attendees, recommendations>>

NextExplain == Explain

SpecExplain == InitExplain /\ [][NextExplain]_vars

\* ------------------------------------- the shared vectorizer, concurrently
\* The engine creates one TfidfVectorizer in __init__ and every call of
\* create_user_features runs self.vectorizer.fit_transform on it.  Inside,
\* fit_transform counts the terms of its own documents into a local matrix
\* X, fits the idf weights of the vectorizer's transformer on X, and then
\* transforms X with the weights the transformer holds at that moment.
\* SpecConcurrent runs two invocations as two threads over one engine: `call`
\* holds the idf vector of the shared vectorizer and each thread's position.
\*
\* A document is the set of vocabulary terms of an attendee's combined
\* text; a term is its rank in alphabetical order, the order of the columns.
NumTerms == 2
MaxDocs == 2
NumThreads == 2

Terms == 1..NumTerms
Threads == 1..NumThreads

TermRows == [terms : SUBSET Terms, experience_years : {20}]
TermBatches == UNION {[1..n -> TermRows] : n \in 1..MaxDocs}

\* The vocabulary of a batch, as the sequence of its columns.
Vocabulary(df) == Ascending(UNION {df[k].terms : k \in 1..Len(df)})

\* CountVectorizer.fit_transform: the term counts of each document.
CountMatrix(df) ==
    [i \in 1..Len(df) |->
        [k \in 1..Len(Vocabulary(df)) |->
            IF Vocabulary(df)[k] \in df[i].terms THEN 1 ELSE 0]]

\* ln((1 + n) / (1 + df)) + 1 in thousandths, n documents of which df hold
\* the term.
SmoothIdf(n, df) ==
    CASE n = df -> 1000
      [] <<n, df>> = <<2, 1>> -> 1405
      [] <<n, df>> = <<3, 1>> -> 1693
      [] <<n, df>> = <<3, 2>> -> 1288
      [] <<n, df>> = <<4, 1>> -> 1916
      [] <<n, df>> = <<4, 2>> -> 1511
      [] <<n, df>> = <<4, 3>> -> 1223

\* TfidfTransformer.fit: one idf weight per column of X.
FitIdf(X) ==
    IF X = <<>> THEN <<>>
    ELSE [k \in 1..Len(X[1]) |->
            SmoothIdf(Len(X), Cardinality({i \in 1..Len(X) : X[i][k] > 0}))]

\* A row scaled to norm 1 (40 units of 1/40); a zero row stays zero.
L2Normalize(row) ==
    IF Dot(row, row) = 0 THEN row
    ELSE [k \in 1..Len(row) |->
            (ExperienceCeiling * row[k]) \div IntSqrt(Dot(row, row))]

\* TfidfTransformer.transform: raises ValueError when X has another number
\* of columns than the fitted idf vector.
TransformRaises(X, idf) == Len(X[1]) # Len(idf)

TfidfTransform(X, idf) ==
    [i \in 1..Len(X) |->
        L2Normalize([k \in 1..Len(X[i]) |-> X[i][k] * idf[k]])]

\* np.hstack([text_dense, numerical_features])
StackFeatures(df, text_dense) ==
    [i \in 1..Len(df) |->
        Append(text_dense[i], NormalizedExp(df[i].experience_years))]

\* create_user_features run on its own, nothing else touching the engine.
FeaturesAlone(df) ==
    IF Vocabulary(df) = <<>> THEN <<>>
    ELSE StackFeatures(df, TfidfTransform(CountMatrix(df), FitIdf(CountMatrix(df))))

InitConcurrent ==
    /\ users = [u \in Users |-> [text |-> <<0, 0>>, experience_years |-> None]]
    /\ attendees = [e \in Events |-> {}]
    /\ recommendations = {}
    /\ \E batches \in [Threads -> TermBatches] :
          call = [op |-> "create_user_features",
                  idf |-> <<>>,
                  threads |-> [t \in Threads |->
                                 [pc |-> "start", df |-> batches[t],
                                  X |-> <<>>, features |-> <<>>]]]

\* fit_transform up to the fit of the idf weights.  An empty vocabulary
\* raises before the fit, and create_user_features returns the empty array.
FitVectorizer(t) ==
    /\ call.op = "create_user_features"
    /\ call.threads[t].pc = "start"
    /\ IF Vocabulary(call.threads[t].df) = <<>>
       THEN call' = [call EXCEPT !.threads[t].pc = "done"]
       ELSE call' = [call EXCEPT
                       !.idf = FitIdf(CountMatrix(call.threads[t].df)),
                       !.threads[t].pc = "fitted",
                       !.threads[t].X = CountMatrix(call.threads[t].df)]
    /\ UNCHANGED <<users, attendees, recommendations>>

\* The transform of the thread's X with the idf weights of the vectorizer,
\* and the rest of create_user_features.
TransformAndStack(t) ==
    /\ call.op = "create_user_features"
    /\ call.threads[t].pc = "fitted"
    /\ IF TransformRaises(call.threads[t].X, call.idf)
       THEN call' = [call EXCEPT !.threads[t].pc = "done"]
       ELSE call' = [call EXCEPT
                       !.threads[t].pc = "done",
                       !.threads[t].features =
                           StackFeatures(call.threads[t].df,
                                         TfidfTransform(call.threads[t].X, call.idf))]
    /\ UNCHANGED <<users, attendees, recommendations>>

NextConcurrent ==
    \E t \in Threads : FitVectorizer(t) \/ TransformAndStack(t)

SpecConcurrent == InitConcurrent /\ [][NextConcurrent]_vars

\* ------------------------------------ the validators of max_recommendations
\* The repository checks a max_recommendations value in four places.
\* SpecValidate draws a value and a validator and applies it.
RequestCap == 20
SettingsCap == 50
MaxLimit == 51

\* RecommendationRequest.max_recommendations: Field(10, ge=1, le=20)
RecommendationRequestAccepts(max_recommendations) ==
    max_recommendations >= 1 /\ max_recommendations <= RequestCap

\* helpers.validate_recommendation_request: no error is appended.
ValidateRecommendationRequest(event_id, max_recommendations) ==
    /\ event_id # 0
    /\ ~(max_recommendations > RequestCap)
    /\ ~(max_recommendations < 1)

\* settings.validate_settings: the check of max_recommendations passes.
ValidateSettings(max_recommendations) ==
    ~(max_recommendations < 1 \/ max_recommendations > SettingsCap)

\* AlgorithmConfig.max_recommendations: Field(10, ge=1, le=50)
AlgorithmConfigAccepts(max_recommendations) ==
    max_recommendations >= 1 /\ max_recommendations <= SettingsCap

Validators == {"RecommendationRequest", "validate_recommendation_request",
               "validate_settings", "AlgorithmConfig"}

Accepts(validator, event_id, max_recommendations) ==
    CASE validator = "RecommendationRequest" ->
            RecommendationRequestAccepts(max_recommendations)
      [] validator = "validate_recommendation_request" ->
            ValidateRecommendationRequest(event_id, max_recommendations)
      [] validator = "validate_settings" ->
            ValidateSettings(max_recommendations)
      [] validator = "AlgorithmConfig" ->
            AlgorithmConfigAccepts(max_recommendations)

InitValidate ==
    /\ users = [u \in Users |-> [text |-> <<0, 0>>, experience_years |-> None]]
    /\ attendees = [e \in Events |-> {}]
    /\ recommendations = {}
    /\ \E validator \in Validators, event_id \in {0} \cup Events,
          max_recommendations \in 0..MaxLimit :
          call = [op |-> "validate_input", validator |-> validator,
                  event_id |-> event_id,
                  max_recommendations |-> max_recommendations]

Validate ==
    /\ call.op = "validate_input"
    /\ call' = [op |-> "validate", validator |-> call.validator,
                event_id |-> call.event_id,
                max_recommendations |-> call.max_recommendations,
                accepted |-> Accepts(call.validator, call.event_id,
                                     call.max_recommendations)]
    /\ UNCHANGED <<users, attendees, recommendations>>

NextValidate == Validate

SpecValidate == InitValidate /\ [][NextValidate]_vars

\* =============================================================== claims
Ranked == call.op = "rank"

\* The positions a ranking of row user_idx may recommend: every other
\* position whose score is strictly above the threshold.
Eligible(similarity_matrix, user_idx) ==
    {j \in 1..Len(similarity_matrix) :
        j # user_idx /\ similarity_matrix[user_idx][j] > min_similarity_threshold}

RecommendedIds(result) == {result[k].recommended_user_id : k \in 1..Len(result)}

\* C1: the list of one source attendee has at most max_recommendations
\* entries, is sorted by non-increasing score, and no eligible candidate
\* left out of it has a strictly higher score than an entry of it.
C1_TopK ==
    Ranked =>
        /\ Len(call.result) <= call.max_recommendations
        /\ \A k \in 1..(Len(call.result) - 1) :
              call.result[k].similarity_score >= call.result[k + 1].similarity_score
        /\ \A j \in Eligible(call.similarity_matrix, call.user_idx) :
              call.df[j].user_id \notin RecommendedIds(call.result) =>
                 \A k \in 1..Len(call.result) :
                    call.similarity_matrix[call.user_idx][j]
                        <= call.result[k].similarity_score

\* A ranking that had to reorder the candidates and to drop one.
C1_Witness ==
    /\ Ranked
    /\ Cardinality(Eligible(call.similarity_matrix, call.user_idx))
          > call.max_recommendations
    /\ Len(call.result) = call.max_recommendations
    /\ \E j \in Eligible(call.similarity_matrix, call.user_idx) :
          /\ call.df[j].user_id \notin RecommendedIds(call.result)
          /\ call.similarity_matrix[call.user_idx][j] < call.result[1].similarity_score
          /\ j < Len(call.df)
          /\ \E m \in (j + 1)..Len(call.df) :
                call.df[m].user_id = call.result[1].recommended_user_id

\* C2: no recommendation names its own source; every entry has a score
\* strictly above the threshold (one equal to it is never returned); and
\* every eligible candidate is returned unless the list is full.
C2_Eligibility ==
    Ranked =>
        /\ \A k \in 1..Len(call.result) :
              /\ call.result[k].user_id = call.df[call.user_idx].user_id
              /\ call.result[k].recommended_user_id # call.result[k].user_id
              /\ call.result[k].similarity_score > min_similarity_threshold
              /\ \E j \in Eligible(call.similarity_matrix, call.user_idx) :
                    /\ call.df[j].user_id = call.result[k].recommended_user_id
                    /\ call.similarity_matrix[call.user_idx][j]
                          = call.result[k].similarity_score
        /\ Len(call.result) < call.max_recommendations =>
              RecommendedIds(call.result)
                 = {call.df[j].user_id :
                       j \in Eligible(call.similarity_matrix, call.user_idx)}

\* A ranking with a candidate exactly at the threshold, left out, and
\* another above it, returned.
C2_Witness ==
    /\ Ranked
    /\ Len(call.result) >= 1
    /\ Len(call.result) < call.max_recommendations
    /\ \E j \in 1..Len(call.df) :
          /\ j # call.user_idx
          /\ call.similarity_matrix[call.user_idx][j] = min_similarity_threshold
          /\ call.df[j].user_id \notin RecommendedIds(call.result)

\* C3: candidates of equal score come in ascending candidate id, whatever
\* the order of the frame, and a cut through a group of equal scores keeps
\* the smallest ids.
C3_TiesById ==
    Ranked =>
        /\ \A k \in 1..(Len(call.result) - 1) :
              call.result[k].similarity_score = call.result[k + 1].similarity_score
                 => call.result[k].recommended_user_id
                       < call.result[k + 1].recommended_user_id
        /\ \A j \in Eligible(call.similarity_matrix, call.user_idx) :
              call.df[j].user_id \notin RecommendedIds(call.result) =>
                 \A k \in 1..Len(call.result) :
                    call.similarity_matrix[call.user_idx][j]
                          = call.result[k].similarity_score
                       => call.result[k].recommended_user_id < call.df[j].user_id

SimilarityComputed == call.op = "similarity" /\ call.similarity_matrix # <<>>

\* C6: the similarity matrix of every batch is symmetric with diagonal 1.
C6_SymmetricUnitDiagonal ==
    SimilarityComputed =>
        \A i, j \in 1..Len(call.similarity_matrix) :
            /\ call.similarity_matrix[i][j] = call.similarity_matrix[j][i]
            /\ call.similarity_matrix[i][i] = Scale

\* C7: off the diagonal every score lies in [0, 1], and it is 0 when either
\* feature vector has norm zero.
C7_ScoreRange ==
    SimilarityComputed =>
        \A i, j \in 1..Len(call.similarity_matrix) :
            i # j =>
                /\ 0 <= call.similarity_matrix[i][j]
                /\ call.similarity_matrix[i][j] <= Scale
                /\ (Dot(call.features[i], call.features[i]) = 0
                    \/ Dot(call.features[j], call.features[j]) = 0)
                      => call.similarity_matrix[i][j] = 0


Generated == call.op = "generate_recommendations"

\* C4: generate_recommendations returns the empty list whenever the event
\* has fewer than 2 attendees or the requested target is no attendee of it.
C4_EmptyOnInsufficientInput ==
    Generated =>
        ((Cardinality(AttendeesOf(call.event_id)) < 2
          \/ (call.target_user_id # None
              /\ call.target_user_id[1] \notin AttendeesOf(call.event_id)))
            => call.result = <<>>)

RowsOf(event_id, result) ==
    {[user_id |-> result[k].user_id,
      recommended_user_id |-> result[k].recommended_user_id,
      event_id |-> event_id,
      similarity_score |-> result[k].similarity_score] : k \in 1..Len(result)}

EventRows(event_id) == {row \in recommendations : row.event_id = event_id}

\* C5, as claimed: after any generate_recommendations call for an event the
\* rows stored for the event are exactly the recommendations of that call.
C5_StoredIsComputed ==
    Generated => EventRows(call.event_id) = RowsOf(call.event_id, call.result)

\* C5, amended: after a generate_recommendations call that reached the save
\* and committed it, the rows stored for the event are exactly the
\* recommendations of that call.
C5_StoredIsComputedOnCommit ==
    (Generated /\ call.path = "committed")
        => EventRows(call.event_id) = RowsOf(call.event_id, call.result)

\* A committed call that superseded a stored row: a row it deleted is gone.
C5_Witness ==
    /\ Generated
    /\ call.path = "committed"
    /\ call.result # <<>>
    /\ \E row \in call.deleted : row \notin recommendations

Analyzed == call.op = "analyze_clusters" /\ ~call.raised

MatrixOf(df) == CalculateSimilarityMatrix(CreateUserFeatures(df))

EdgesBetween(G, a, b) == {e \in G.edges : e.ends = {a, b}}

\* The edge-inclusion threshold the caller configured: the one of the
\* request, or the default of the settings.
ConfiguredEdgeThreshold ==
    IF call.request_threshold = None THEN similarity_threshold_for_edges
    ELSE call.request_threshold[1]

\* C8: for an event with at least 2 attendees the graph has exactly one
\* node per attendee; two attendees are joined by an edge, of weight their
\* similarity, iff that similarity is strictly above the configured
\* edge-inclusion threshold (default 0.3), whatever the recommendation
\* threshold is; a pair with a similarity in (0.1, 0.3] is eligible as a
\* recommendation.  Where the feature builder failed there is no matrix,
\* and no edge.
C8_GraphEdges ==
    (Analyzed /\ Cardinality(AttendeesOf(call.event_id)) >= 2) =>
        /\ Len(call.G.nodes) = Cardinality(AttendeesOf(call.event_id))
        /\ Range(call.G.nodes) = AttendeesOf(call.event_id)
        /\ \A e \in call.G.edges :
              Cardinality(e.ends) = 2 /\ e.ends \subseteq AttendeesOf(call.event_id)
        /\ IF MatrixOf(call.df) = <<>> THEN call.G.edges = {}
           ELSE \A i, j \in 1..Len(call.df) :
                  i # j =>
                     LET score == MatrixOf(call.df)[i][j]
                         between == EdgesBetween(call.G, call.df[i].user_id,
                                                 call.df[j].user_id)
                     IN /\ score > ConfiguredEdgeThreshold
                              => Cardinality(between) = 1
                                 /\ \A e \in between : e.weight = score
                        /\ score <= ConfiguredEdgeThreshold => between = {}
                        /\ (score > min_similarity_threshold
                            /\ score <= similarity_threshold_for_edges)
                              => j \in Eligible(MatrixOf(call.df), i)

CommunityOf(cluster_id) ==
    {call.community_mapping[k].user_id :
        k \in {m \in 1..Len(call.community_mapping) :
                  call.community_mapping[m].cluster_id = cluster_id}}

Assembled == call.op = "assemble"

\* C9: every returned cluster has at least min_cluster_size members, while
\* num_clusters counts every community of the assignment, also the dropped.
C9_ClusterFilter ==
    (Assembled \/ (Analyzed /\ Len(call.G.nodes) > 0)) =>
        /\ \A k \in 1..Len(call.clusters) :
              /\ call.clusters[k].size >= call.min_cluster_size
              /\ call.clusters[k].size = Len(call.clusters[k].members)
              /\ {call.clusters[k].members[m].user_id :
                     m \in 1..Len(call.clusters[k].members)}
                    = CommunityOf(call.clusters[k].cluster_id)
              /\ call.clusters[k].size
                    = Cardinality(CommunityOf(call.clusters[k].cluster_id))
        /\ call.cluster_stats.num_clusters
              = Cardinality({call.community_mapping[k].cluster_id :
                                k \in 1..Len(call.community_mapping)})

\* An analysis that kept one community and dropped another.
C9_Witness ==
    /\ Assembled \/ Analyzed
    /\ Len(call.clusters) >= 1
    /\ call.cluster_stats.num_clusters > Len(call.clusters)
    /\ \E k \in 1..Len(call.clusters) : call.clusters[k].size = call.min_cluster_size

\* C10: for an event with exactly one attendee the analysis reports an
\* empty cluster list and num_clusters = 1.
C10_SingleAttendee ==
    (Analyzed /\ Cardinality(AttendeesOf(call.event_id)) = 1) =>
        /\ call.clusters = <<>>
        /\ call.cluster_stats.num_clusters = 1

Detected == call.op = "detect"

\* C11: detect_communities returns the empty assignment for a graph without
\* nodes, and for a graph of 1 or 2 nodes it assigns every node to the one
\* community 0 without a call of a detection algorithm, whatever the
\* algorithm name.
C11_SmallGraphs ==
    (Detected /\ Len(call.G.nodes) < 3) =>
        /\ ~call.invoked
        /\ Len(call.community_mapping) = Len(call.G.nodes)
        /\ {call.community_mapping[k].user_id :
               k \in 1..Len(call.community_mapping)} = Range(call.G.nodes)
        /\ \A k \in 1..Len(call.community_mapping) :
              call.community_mapping[k].cluster_id = 0
        /\ Len(call.G.nodes) = 0 => call.community_mapping = <<>>

\* A detection on two nodes without an edge, asked for girvan_newman.
C11_Witness ==
    /\ Detected
    /\ Len(call.G.nodes) = 2
    /\ call.G.edges = {}
    /\ call.algorithm = "girvan_newman"
    /\ Len(call.community_mapping) = 2

\* C12: no core entry point propagates an exception to its caller; a call
\* whose internal step faults returns an empty or trivial result.
C12_NoExceptionPropagates ==
    call.op \in {"generate_recommendations", "analyze_clusters"} =>
        ("raised" \in DOMAIN call => ~call.raised)

\* C13: the reported modularity is 0.0 whenever the assignment has a single
\* community and whenever the graph has no edge, for any number of
\* communities, and the statistics always carry it: computing it never
\* raises.
C13_ModularityZero ==
    (Assembled \/ Analyzed) =>
        /\ "modularity" \in DOMAIN call.cluster_stats
        /\ (call.cluster_stats.num_clusters <= 1 \/ call.G.edges = {})
              => call.cluster_stats.modularity = 0

\* Statistics of a graph without edges split into several communities,
\* where networkx's modularity divides by zero.
C13_Witness ==
    /\ Assembled
    /\ call.G.edges = {}
    /\ call.cluster_stats.num_clusters > 1
    /\ call.cluster_stats.modularity = 0

\* C14: two feature-building invocations that run concurrently on one
\* engine, in any interleaving, each return what the invocation returns
\* when it runs alone: vectors weighted by the vocabulary of its own batch.
C14_IsolatedInvocations ==
    call.op = "create_user_features" =>
        \A t \in Threads :
            call.threads[t].pc = "done" =>
                call.threads[t].features = FeaturesAlone(call.threads[t].df)

\* C15: create_user_features returns the empty result for an empty batch,
\* and for every non-empty batch, also one of a single attendee or of
\* attendees without any text token, one vector per attendee, all of the
\* same length.
C15_OneVectorPerAttendee ==
    call.op = "similarity" =>
        IF call.df = <<>> THEN call.features = <<>>
        ELSE /\ Len(call.features) = Len(call.df)
             /\ \A i, j \in 1..Len(call.features) :
                   Len(call.features[i]) = Len(call.features[j])

\* C16: a max_recommendations value above 20 is rejected at the boundary
\* by every validator the repository defines for that limit, so that no
\* call path ranks with a limit above 20.
C16_CapTwenty ==
    (call.op = "validate" /\ call.max_recommendations > 20) => ~call.accepted

\* C17: the confidence bucket is a total function of the score with
\* inclusive lower bounds: very_high iff score >= 0.8, high iff
\* 0.6 <= score < 0.8, medium iff 0.4 <= score < 0.6, low otherwise; and
\* every returned recommendation carries the bucket of its own score.
C17_ConfidenceBuckets ==
    Ranked =>
        \A k \in 1..Len(call.result) :
            LET score == call.result[k].similarity_score
                bucket == call.result[k].confidence_level
            IN /\ bucket \in {"very_high", "high", "medium", "low"}
               /\ bucket = "very_high" <=> score >= 80
               /\ bucket = "high" <=> (score >= 60 /\ score < 80)
               /\ bucket = "medium" <=> (score >= 40 /\ score < 60)
               /\ bucket = "low" <=> score < 40
               /\ \E j \in 1..Len(call.df) :
                     /\ call.df[j].user_id = call.result[k].recommended_user_id
                     /\ call.similarity_matrix[call.user_idx][j] = score

\* A returned recommendation whose score is exactly the bound 0.6.
C17_Witness ==
    /\ Ranked
    /\ Len(call.result) = 1
    /\ call.result[1].similarity_score = 60
    /\ call.result[1].confidence_level = "high"

Explained == call.op = "explain"

\* The position of a clause kind in the fixed order; the score bands last.
KindRank(kind) ==
    CASE kind = "Both work in" -> 1
      [] kind = "Both work at" -> 2
      [] kind = "Similar experience levels" -> 3
      [] kind = "Shared interests:" -> 4
      [] kind = "Complementary networking goals" -> 5
      [] OTHER -> 6

ReasonKinds == {call.reason[k].kind : k \in 1..Len(call.reason)}

\* The score band the claim assigns to a score.
ScoreBand(score) ==
    IF score >= 70 THEN "Strong profile compatibility"
    ELSE IF score >= 50 THEN "Good profile match"
    ELSE "Potential networking opportunity"

SharedInterests ==
    {Lower(a) : a \in call.user1.interests} \cap {Lower(b) : b \in call.user2.interests}

Min3(k) == IF k < 3 THEN k ELSE 3

\* C19: when the two attendees share k >= 1 interests, compared without
\* regard to case, the reason has a "Shared interests:" clause that lists
\* min(k, 3) of them in lower case, and mutual_interests carries min(k, 3)
\* entries, all of the intersection; when they share none there is no such
\* clause and the list is empty.
C19_SharedInterests ==
    Explained =>
        LET k == Cardinality(SharedInterests)
            clauses == {c \in 1..Len(call.reason) :
                          call.reason[c].kind = "Shared interests:"}
        IN /\ Len(call.mutual_interests) = Min3(k)
           /\ Range(call.mutual_interests) \subseteq SharedInterests
           /\ Cardinality(Range(call.mutual_interests)) = Len(call.mutual_interests)
           /\ IF k = 0 THEN clauses = {}
              ELSE /\ Cardinality(clauses) = 1
                   /\ \A c \in clauses :
                         /\ Len(call.reason[c].detail) = Min3(k)
                         /\ Range(call.reason[c].detail) \subseteq SharedInterests

\* The directional goal pairs of the claim.
GoalPairs ==
    {<<"learn", "teach">>, <<"teach", "learn">>,
     <<"hire", "job_search">>, <<"job_search", "hire">>}

\* C20: for an ordered pair (A, B) the reason includes "Complementary
\* networking goals" iff one of the pairs (learn, teach), (teach, learn),
\* (hire, job_search), (job_search, hire) has its first goal among A's
\* goals and its second among B's, matched exactly and without regard to
\* case.
C20_ComplementaryGoals ==
    Explained =>
        ("Complementary networking goals" \in ReasonKinds
           <=> \E p \in GoalPairs :
                  /\ p[1] \in {Lower(g) : g \in call.user1.goals}
                  /\ p[2] \in {Lower(g) : g \in call.user2.goals})

\* experience_years / 40 clamped to [0, 1], in units of 1/40.
ClampedExperience(exp_years) ==
    IF exp_years < 0 THEN 0
    ELSE IF exp_years > ExperienceCeiling THEN ExperienceCeiling
    ELSE exp_years

\* C21: the numeric feature of every attendee, the last entry of the
\* feature row, is experience_years / 40 clamped to [0, 1], 0 for a missing
\* experience_years, and never below 0 or above 1.
C21_NumericFeature ==
    (SimilarityComputed /\ call.features # <<>>) =>
        \A k \in 1..Len(call.df) :
            LET numeric == call.features[k][Len(call.features[k])]
            IN /\ numeric = ClampedExperience(call.df[k].experience_years)
               /\ numeric >= 0
               /\ numeric <= ExperienceCeiling

\* What a registration request may do, by the status it answers with.
RegistrationStep ==
    call'.op = "register" =>
        LET e == call'.event_id
            u == call'.user_id
        IN CASE call'.status = 200 ->
                  /\ e \in Events /\ u \in Users
                  /\ u \notin attendees[e]
                  /\ attendees' = [attendees EXCEPT ![e] = @ \cup {u}]
                  /\ Cardinality(attendees'[e]) = Cardinality(attendees[e]) + 1
             [] call'.status = 400 ->
                  /\ e \in Events /\ u \in Users
                  /\ u \in attendees[e]
                  /\ attendees' = attendees
             [] call'.status = 404 ->
                  /\ e \notin Events \/ u \notin Users
                  /\ attendees' = attendees
             [] OTHER -> FALSE

\* What the event endpoint reports.
ReportStep ==
    call'.op = "get_event" =>
        /\ attendees' = attendees
        /\ call'.status = 200 <=> call'.event_id \in Events
        /\ call'.status = 200 =>
              call'.attendee_count = Cardinality(attendees[call'.event_id])

HeldBy(x) ==
    Cardinality({k \in 1..Len(call.member_industries) : call.member_industries[k] = x})

\* The position at which the industry x is first met.
FirstMet(x) ==
    CHOOSE k \in 1..Len(call.member_industries) :
        /\ call.member_industries[k] = x
        /\ \A j \in 1..(k - 1) : call.member_industries[j] # x

NamedIndustries == Range(call.member_industries) \ {""}

\* C23: the dominant industry of a cluster is the industry most of its
\* members hold, members without industry not counted; among industries of
\* the same highest count it is the one met first in the order of the
\* members; a cluster whose members all lack an industry has none.
C23_DominantIndustry ==
    call.op = "cluster" =>
        IF NamedIndustries = {} THEN call.dominant_industry = None
        ELSE \E x \in NamedIndustries :
                /\ call.dominant_industry = Some(x)
                /\ \A y \in NamedIndustries \ {x} :
                      \/ HeldBy(x) > HeldBy(y)
                      \/ HeldBy(x) = HeldBy(y) /\ FirstMet(x) < FirstMet(y)

\* The causes of an early return of the call a step makes: fewer than 2
\* attendees, a target that is no attendee, or no feature matrix (no
\* attendee of the event has a text token).
ReturnsEarly ==
    LET present == AttendeesOf(call'.event_id)
    IN \/ Cardinality(present) < 2
       \/ /\ Truthy(call'.target_user_id)
          /\ call'.target_user_id[1] \notin present
       \/ \A u \in present : users[u].text = <<0, 0>>

\* C24: a generate_recommendations call that returns the empty list because
\* the event has fewer than 2 attendees, the target is absent or the
\* features could not be built writes nothing: the stored recommendations
\* are as they were before the call.
C24_EarlyReturnWritesNothing ==
    [][(call'.op = "generate_recommendations" /\ ReturnsEarly)
          => (call'.result = <<>> /\ recommendations' = recommendations)]_vars

\* An early return for a target that is no attendee, while rows of an
\* earlier call are stored for the event.
C24_Witness ==
    /\ Generated
    /\ call.target_user_id = Some(MissingId)
    /\ call.path = "early"
    /\ EventRows(call.event_id) # {}

\* The list a step's call returned is one generate_recommendations computes
\* for the event, under some order the attendee query may return.
ReturnsComputedList ==
    \E order \in Orderings(AttendeesOf(call'.event_id)) :
    \E df \in {GetEventAttendeesData(call'.event_id, order)} :
    \E similarity_matrix \in {MatrixOf(df)} :
        call'.result = Rank(df, similarity_matrix, call'.target_user_id,
                            call'.max_recommendations).result

\* C25: when the save of a generate_recommendations call fails, the delete
\* of the event's old rows and the inserts are rolled back together: the
\* stored recommendations are those stored before the call, and the call
\* still returns the list it computed.
C25_SaveIsAtomic ==
    [][(call'.op = "generate_recommendations" /\ call'.path = "rolled_back")
          => /\ recommendations' = recommendations
             /\ ReturnsComputedList]_vars

\* A failed save that returned a list other than the rows left stored.
C25_Witness ==
    /\ Generated
    /\ call.path = "rolled_back"
    /\ call.result # <<>>
    /\ EventRows(call.event_id) # {}
    /\ EventRows(call.event_id) # RowsOf(call.event_id, call.result)

\* C26: after any sequence of generate_recommendations calls the stored
\* recommendations hold no two rows of the same (user_id,
\* recommended_user_id, event_id) and no row that recommends a user to
\* themselves.
C26_UniqueAndNoSelf ==
    /\ \A a, b \in recommendations : RowKey(a) = RowKey(b) => a = b
    /\ \A row \in recommendations : row.user_id # row.recommended_user_id

\* Rows of both directions of a pair stored by a committed call.
C26_Witness ==
    /\ Generated
    /\ call.path = "committed"
    /\ \E a, b \in recommendations :
          /\ a.user_id = b.recommended_user_id
          /\ b.user_id = a.recommended_user_id
          /\ a.event_id = b.event_id

OtherEventRows(table, event_id) == {row \in table : row.event_id # event_id}

\* C27: the save of a generate_recommendations call for event E leaves the
\* recommendations stored for every other event as they were.
C27_OtherEventsUnchanged ==
    call.op = "save" =>
        OtherEventRows(recommendations, call.event_id)
            = OtherEventRows(call.before, call.event_id)

\* A committed save that changed the rows of its event while rows of
\* another event are stored.
C27_Witness ==
    /\ call.op = "save"
    /\ call.committed
    /\ recommendations # call.before
    /\ OtherEventRows(recommendations, call.event_id) # {}

\* C28: for every graph and every algorithm name, the fallback after a
\* raising algorithm included, detect_communities maps every node of the
\* graph to exactly one community and nothing else, the ids used are
\* exactly 0..k-1 for the k communities, and the sizes of the communities
\* sum to the total_nodes of the cluster statistics.
C28_Partition ==
    Detected =>
        LET mapping == call.community_mapping
            k == Cardinality(ClusterIds(mapping))
        IN /\ {mapping[n].user_id : n \in 1..Len(mapping)} = Range(call.G.nodes)
           /\ \A a, b \in 1..Len(mapping) :
                 mapping[a].user_id = mapping[b].user_id => a = b
           /\ ClusterIds(mapping) = 0..(k - 1)
           /\ SeqSum([c \in 1..k |-> SizeOf(mapping, c - 1)], k)
                 = call.cluster_stats.total_nodes
           /\ call.cluster_stats.total_nodes = Len(call.G.nodes)

\* An assignment of three nodes to two communities by label propagation.
C28_Witness ==
    /\ Detected
    /\ call.invoked
    /\ call.algorithm = "label_propagation"
    /\ Len(call.G.nodes) = 3
    /\ Cardinality(ClusterIds(call.community_mapping)) = 2

\* A call that generated for every attendee of its event.
GeneratedForAll ==
    /\ Generated
    /\ ~Truthy(call.target_user_id)
    /\ call.path # "early"

\* Every entry of the result has its mirror entry, of the same score and
\* the same confidence level.
Mirrored ==
    \A a \in 1..Len(call.result) :
        \E b \in 1..Len(call.result) :
            /\ call.result[b].user_id = call.result[a].recommended_user_id
            /\ call.result[b].recommended_user_id = call.result[a].user_id
            /\ call.result[b].similarity_score = call.result[a].similarity_score
            /\ call.result[b].confidence_level = call.result[a].confidence_level

\* C29: when recommendations are generated for every attendee of an event
\* of N attendees with max_recommendations >= N - 1, B is in A's list iff A
\* is in B's list, and the two entries carry the same similarity_score and
\* confidence_level.
C29_Symmetric ==
    (GeneratedForAll
       /\ call.max_recommendations >= Cardinality(AttendeesOf(call.event_id)) - 1)
        => Mirrored

\* Three attendees, each with both others in an untruncated list.
C29_Witness ==
    /\ GeneratedForAll
    /\ Cardinality(AttendeesOf(call.event_id)) = 3
    /\ call.max_recommendations = 2
    /\ Len(call.result) = 6

\* The other half of C29: with max_recommendations below N - 1 a result
\* can lack a mirror entry.
C29_TruncatedAsymmetric ==
    /\ GeneratedForAll
    /\ call.max_recommendations < Cardinality(AttendeesOf(call.event_id)) - 1
    /\ ~Mirrored

\* The entries of the engine's list whose source is user_id, in order.
EntriesOf(user_id) ==
    SelectSeq(call.engine_result, LAMBDA rec : rec.user_id = user_id)

\* C30: in the response of the recommendations endpoint every per-user
\* group names the source user of its recommendations in user_name, counts
\* its recommended_users in total_recommendations, holds exactly the
\* recommendations whose source is its user_id, and total_users is the
\* number of distinct source users with a recommendation.
C30_ResponseGroups ==
    call.op = "respond" =>
        LET groups == call.response.recommendations
        IN /\ \A g \in 1..Len(groups) :
                 /\ groups[g].user_name = UserName(groups[g].user_id)
                 /\ groups[g].total_recommendations = Len(groups[g].recommended_users)
                 /\ Len(groups[g].recommended_users) = Len(EntriesOf(groups[g].user_id))
                 /\ \A k \in 1..Len(groups[g].recommended_users) :
                       groups[g].recommended_users[k].recommended_user_id
                          = EntriesOf(groups[g].user_id)[k].recommended_user_id
           /\ call.response.total_users
                 = Cardinality({call.engine_result[k].user_id :
                                   k \in 1..Len(call.engine_result)})

====
